---- MODULE Spec2Model ----
(***************************************************************************)
(* A model of llvm-html (llvm-html.cpp): the driver loop of main, the      *)
(* output-name resolution, inlineCSS and CommentWriter::printInfoComment.  *)
(*                                                                         *)
(* Text is a sequence of tokens.  A file name is a sequence of one-        *)
(* character strings.  HTML/CSS text is a sequence of tokens in which the  *)
(* literal "<link" is one token, ">" is one token and "\n" is the line     *)
(* terminator, so that the regular expression "<link.*>" of inlineCSS can  *)
(* be evaluated the way std::regex (ECMAScript grammar) evaluates it.      *)
(***************************************************************************)
EXTENDS Integers, Sequences, FiniteSets

VARIABLES
  InputFilenames,        \* cl::list InputFilenames (after command-line parsing)
  OutputFilename,        \* cl::opt "o"
  DontPrint,             \* cl::opt "disable-output"
  PrintThinLTOIndexOnly, \* cl::opt "print-thinlto-index-only"
  pc,                    \* position in main / inlineCSS / printInfoComment
  F,                     \* index of the current input file (1-based position in InputFilenames)
  N,                     \* IF.Mods.size() of the current file
  I,                     \* loop variable of the module loop (zero-based)
  M,                     \* whether std::unique_ptr<Module> M is non-null
  Index,                 \* whether std::unique_ptr<ModuleSummaryIndex> Index is non-null
  IndexText,             \* what Index->print renders for the current module
  FinalFilename,         \* the resolved output target of the current module
  Out,                   \* the open ToolOutputFile: [name, os, keep], or NoOut
  OutString,             \* body buffer filled by HTMLWriter::print
  CSSOutString,          \* CSS buffer filled by HTMLWriter::print
  Printed,               \* whether HTMLWriter::print ran for the current module
  disk,                  \* names of the files this run created or truncated and has not removed
  committed,             \* the kept outputs [file, module, name], in the order of keep()
  Ns,                    \* module counts of the files decoded so far
  targets,               \* targets resolved for the modules of the current file
  failPos,               \* (file, module) being handled when the run terminated fatally
  status,                \* exit status of the process, -1 while running
  V,                     \* the value handed to printInfoComment
  OS,                    \* what printInfoComment has emitted on the stream
  Padded                 \* local variable Padded of printInfoComment

vars == <<InputFilenames, OutputFilename, DontPrint, PrintThinLTOIndexOnly, pc,
          F, N, I, M, Index, IndexText, FinalFilename, Out, OutString,
          CSSOutString, Printed, disk, committed, Ns, targets, failPos,
          status, V, OS, Padded>>

----------------------------------------------------------------------------
(* Bounds of the model.                                                    *)

MaxFiles == 2
MaxModules == 2
MaxNameLen == 4
MaxBodyLen == 5
MaxCssLen == 2
MaxInlineDepth == 3

----------------------------------------------------------------------------
(* Sequences.                                                              *)

SeqsUpTo(S, n) == UNION {[1..k -> S] : k \in 0..n}

Max(S) == CHOOSE x \in S : \A y \in S : y <= x

Min(S) == CHOOSE x \in S : \A y \in S : x <= y

Count(s, c) == Cardinality({k \in 1..Len(s) : s[k] = c})

----------------------------------------------------------------------------
(* inlineCSS: std::regex_replace(Out, std::regex("<link.*>"), Replacement) *)

LinkTok == "<link"

\* ECMAScript "." matches any character except a line terminator.
IsLineTerminator(c) == c = "\n"

\* Index of the first line terminator of s at or after p, Len(s)+1 if none.
LineEnd(s, p) ==
  LET T == {q \in p..Len(s) : IsLineTerminator(s[q])}
  IN IF T = {} THEN Len(s) + 1 ELSE Min(T)

\* End of the match of "<link.*>" that starts at p, 0 if none starts there:
\* ".*" is greedy, so the match runs to the last ">" of the line.
MatchEnd(s, p) ==
  IF s[p] # LinkTok THEN 0
  ELSE LET Cands == {e \in (p + 1)..(LineEnd(s, p + 1) - 1) : s[e] = ">"}
       IN IF Cands = {} THEN 0 ELSE Max(Cands)

\* Start of the leftmost match at or after from, 0 if there is none.
NextMatch(s, from) ==
  LET P == {p \in from..Len(s) : MatchEnd(s, p) > 0}
  IN IF P = {} THEN 0 ELSE Min(P)

\* The format string of regex_replace (ECMAScript rules): "$&" is the match,
\* "$$" is a literal "$", any other "$" is copied.
RECURSIVE Expand(_, _)
Expand(fmt, match) ==
  IF fmt = <<>> THEN <<>>
  ELSE IF Len(fmt) >= 2 /\ fmt[1] = "$" /\ fmt[2] = "&"
       THEN match \o Expand(SubSeq(fmt, 3, Len(fmt)), match)
  ELSE IF Len(fmt) >= 2 /\ fmt[1] = "$" /\ fmt[2] = "$"
       THEN <<"$">> \o Expand(SubSeq(fmt, 3, Len(fmt)), match)
  ELSE <<fmt[1]>> \o Expand(Tail(fmt), match)

\* std::regex_replace with the default flags: every non-overlapping match,
\* left to right, is replaced by the expanded format string.
RECURSIVE ReplaceFrom(_, _, _)
ReplaceFrom(s, from, fmt) ==
  LET p == NextMatch(s, from)
  IN IF p = 0 THEN SubSeq(s, from, Len(s))
     ELSE SubSeq(s, from, p - 1)
          \o Expand(fmt, SubSeq(s, p, MatchEnd(s, p)))
          \o ReplaceFrom(s, MatchEnd(s, p) + 1, fmt)

RegexReplace(s, fmt) == ReplaceFrom(s, 1, fmt)

StyleOpen == <<"<style", ">", " ", "\n">>

StyleClose == <<"</style", ">", " ", "\n">>

\* ReplacementString of inlineCSS.
ReplacementString(CSS) == StyleOpen \o CSS \o StyleClose

\* What inlineCSS writes to OS.
inlineCSS(OutStr, CSS) == RegexReplace(OutStr, ReplacementString(CSS))

----------------------------------------------------------------------------
(* Output-name resolution (main, "FinalFilename").                         *)

Dash == <<"-">>

BcSuffix == <<".", "b", "c">>

HtmlSuffix == <<".", "h", "t", "m", "l">>

Digits == <<"0", "1", "2", "3", "4", "5", "6", "7", "8", "9">>

\* std::to_string of a non-negative integer.
RECURSIVE to_string(_)
to_string(i) ==
  IF i < 10 THEN <<Digits[i + 1]>>
  ELSE to_string(i \div 10) \o <<Digits[(i % 10) + 1]>>

\* StringRef::endswith
endswith(s, suf) ==
  /\ Len(s) >= Len(suf)
  /\ SubSeq(s, Len(s) - Len(suf) + 1, Len(s)) = suf

\* StringRef::drop_back
drop_back(s, k) == SubSeq(s, 1, Len(s) - k)

\* ResolveOutputName that drops the last three characters of the input name
\* without looking at them.
ResolveOutputNameAlwaysStrip(ofn, dp, ifn, n, i) ==
  LET Start == IF dp THEN Dash ELSE ofn
      Suffix == IF n > 1 THEN <<".">> \o to_string(i) ELSE <<>>
  IN IF Start = <<>>
     THEN IF ifn = Dash THEN Dash
          ELSE drop_back(ifn, 3) \o Suffix \o HtmlSuffix
     ELSE Start \o Suffix

\* The value of FinalFilename when the ToolOutputFile is created, for module
\* i of n of input ifn, with -o ofn and --disable-output dp.
ResolveOutputName(ofn, dp, ifn, n, i) ==
  LET Start == IF dp THEN Dash ELSE ofn
      Suffix == IF n > 1 THEN <<".">> \o to_string(i) ELSE <<>>
  IN IF Start = <<>>
     THEN IF ifn = Dash THEN Dash
          ELSE (IF endswith(ifn, BcSuffix) THEN drop_back(ifn, 3) ELSE ifn)
               \o Suffix \o HtmlSuffix
     ELSE Start \o Suffix

----------------------------------------------------------------------------
(* The driver: main.                                                       *)

NoOut == [name |-> <<>>, os |-> <<>>, keep |-> FALSE, open |-> FALSE]

NoValue == [isVoid |-> FALSE, isInst |-> FALSE, debugLoc |-> -1, dbg |-> "none"]

\* Input names given on the command line: the stdin sentinel, a name with
\* the bitcode suffix and a name without it.
InputNames == {Dash, <<"a", ".", "b", "c">>, <<"b">>}

\* Values of -o: none, the stdout sentinel, a file name.
OutputNames == {<<>>, Dash, <<"o">>}

\* What HTMLWriter::print may leave in the body buffer: text with the
\* stylesheet-link placeholder, and text without it.
Bodies == {<<"h", LinkTok, ">", "\n", "b">>, <<"b">>}

\* What HTMLWriter::print may leave in the CSS buffer.
CssTexts == {<<"c">>, <<>>}

\* What ModuleSummaryIndex::print may render.
IndexTexts == {<<"s">>, <<"s", LinkTok, ">">>}

optVars == <<InputFilenames, OutputFilename, DontPrint, PrintThinLTOIndexOnly>>

commentVars == <<V, OS, Padded>>

bufVars == <<OutString, CSSOutString, Printed, IndexText>>

histVars == <<disk, committed, Ns>>

Init ==
  /\ InputFilenames \in SeqsUpTo(InputNames, MaxFiles)
  /\ OutputFilename \in OutputNames
  /\ DontPrint \in BOOLEAN
  /\ PrintThinLTOIndexOnly \in BOOLEAN
  /\ pc = "args"
  /\ F = 0 /\ N = 0 /\ I = 0
  /\ M = FALSE /\ Index = FALSE /\ IndexText = <<>>
  /\ FinalFilename = <<>>
  /\ Out = NoOut
  /\ OutString = <<>> /\ CSSOutString = <<>> /\ Printed = FALSE
  /\ disk = {} /\ committed = <<>> /\ Ns = <<>> /\ targets = <<>>
  /\ failPos = <<0, 0>>
  /\ status = -1
  /\ V = NoValue /\ OS = <<>> /\ Padded = FALSE

\* "return 1", ExitOnErr and the diagnostic handler's exit(1).
Fatal ==
  /\ pc' = "exit"
  /\ status' = 1
  /\ failPos' = <<F, I>>

\* CheckArgs without the check of -o against several inputs.
CheckArgsNoConflict ==
  /\ pc = "args"
  /\ InputFilenames' = IF Len(InputFilenames) < 1 THEN <<Dash>> ELSE InputFilenames
  /\ pc' = "load" /\ F' = 1
  /\ UNCHANGED <<status, failPos>>
  /\ UNCHANGED <<OutputFilename, DontPrint, PrintThinLTOIndexOnly, N, I, M,
                 Index, FinalFilename, Out, targets>>
  /\ UNCHANGED <<bufVars, histVars, commentVars>>

\* Lines 185-191: the default input and the -o / multiple inputs conflict.
CheckArgs ==
  /\ pc = "args"
  /\ IF Len(InputFilenames) < 1
     THEN /\ InputFilenames' = <<Dash>>
          /\ pc' = "load" /\ F' = 1
          /\ UNCHANGED <<status, failPos>>
     ELSE IF Len(InputFilenames) > 1 /\ OutputFilename # <<>>
     THEN /\ Fatal
          /\ UNCHANGED <<InputFilenames, F>>
     ELSE /\ pc' = "load" /\ F' = 1
          /\ UNCHANGED <<InputFilenames, status, failPos>>
  /\ UNCHANGED <<OutputFilename, DontPrint, PrintThinLTOIndexOnly, N, I, M,
                 Index, FinalFilename, Out, targets>>
  /\ UNCHANGED <<bufVars, histVars, commentVars>>

\* Lines 193-200: MemoryBuffer::getFileOrSTDIN, which may fail.
LoadFile ==
  /\ pc = "load"
  /\ \/ /\ Fatal
     \/ /\ pc' = "decode"
        /\ UNCHANGED <<status, failPos>>
  /\ UNCHANGED <<F, N, I, M, Index, FinalFilename, Out, targets>>
  /\ UNCHANGED <<optVars, bufVars, histVars, commentVars>>

\* Lines 202-209: getBitcodeFileContents, which may fail; N = IF.Mods.size().
DecodeContainer ==
  /\ pc = "decode"
  /\ \/ /\ Fatal
        /\ UNCHANGED <<N, Ns>>
     \/ /\ \E n \in 1..MaxModules :
             /\ N' = n
             /\ Ns' = Append(Ns, n)
        /\ pc' = "materialize"
        /\ UNCHANGED <<status, failPos>>
  /\ UNCHANGED <<F, I, M, Index, FinalFilename, Out, targets, disk, committed>>
  /\ UNCHANGED <<optVars, bufVars, commentVars>>

\* Materialize that ignores --print-thinlto-index-only.
MaterializeAlways ==
  /\ pc = "materialize"
  /\ \/ /\ Fatal
        /\ UNCHANGED M
     \/ /\ M' = TRUE
        /\ pc' = "ltoinfo"
        /\ UNCHANGED <<status, failPos>>
  /\ UNCHANGED <<F, N, I, Index, FinalFilename, Out, targets>>
  /\ UNCHANGED <<optVars, bufVars, histVars, commentVars>>

\* Lines 212-221: getLazyModule and materializeMetadata / materializeAll,
\* each of which may fail; skipped with --print-thinlto-index-only.
Materialize ==
  /\ pc = "materialize"
  /\ IF ~PrintThinLTOIndexOnly
     THEN \/ /\ Fatal
             /\ UNCHANGED M
          \/ /\ M' = TRUE
             /\ pc' = "ltoinfo"
             /\ UNCHANGED <<status, failPos>>
     ELSE /\ M' = FALSE
          /\ pc' = "ltoinfo"
          /\ UNCHANGED <<status, failPos>>
  /\ UNCHANGED <<F, N, I, Index, FinalFilename, Out, targets>>
  /\ UNCHANGED <<optVars, bufVars, histVars, commentVars>>

\* Lines 223-226: getLTOInfo and, with a summary, getSummary; each may fail.
LTOInfo ==
  /\ pc = "ltoinfo"
  /\ \/ /\ Fatal
        /\ UNCHANGED Index
     \/ /\ \E HasSummary \in BOOLEAN : Index' = HasSummary
        /\ pc' = "resolve"
        /\ UNCHANGED <<status, failPos>>
  /\ UNCHANGED <<F, N, I, M, FinalFilename, Out, targets>>
  /\ UNCHANGED <<optVars, bufVars, histVars, commentVars>>

\* Lines 228-246: FinalFilename.
ResolveName ==
  /\ pc = "resolve"
  /\ FinalFilename' =
       ResolveOutputName(OutputFilename, DontPrint, InputFilenames[F], N, I)
  /\ targets' = Append(targets, FinalFilename')
  /\ pc' = "open"
  /\ UNCHANGED <<F, N, I, M, Index, Out, status, failPos>>
  /\ UNCHANGED <<optVars, bufVars, histVars, commentVars>>

\* OpenOutput that reports the failure only after the file was created and
\* leaves the file behind.
OpenOutputLeavesFile ==
  /\ pc = "open"
  /\ \/ /\ FinalFilename # Dash
        /\ Fatal
        /\ disk' = disk \cup {FinalFilename}
        /\ UNCHANGED Out
     \/ /\ Out' = [name |-> FinalFilename, os |-> <<>>, keep |-> FALSE,
                   open |-> TRUE]
        /\ disk' = IF FinalFilename = Dash THEN disk
                   ELSE disk \cup {FinalFilename}
        /\ pc' = "print"
        /\ UNCHANGED <<status, failPos>>
  /\ UNCHANGED <<F, N, I, M, Index, FinalFilename, targets, committed, Ns>>
  /\ UNCHANGED <<optVars, bufVars, commentVars>>

\* Lines 248-263: the ToolOutputFile is created (a file other than "-" is
\* created or truncated on disk), which may fail; the buffers start empty.
OpenOutput ==
  /\ pc = "open"
  /\ \/ /\ FinalFilename # Dash
        /\ Fatal
        /\ UNCHANGED <<Out, disk>>
     \/ /\ Out' = [name |-> FinalFilename, os |-> <<>>, keep |-> FALSE,
                   open |-> TRUE]
        /\ disk' = IF FinalFilename = Dash THEN disk
                   ELSE disk \cup {FinalFilename}
        /\ pc' = "print"
        /\ UNCHANGED <<status, failPos>>
  /\ UNCHANGED <<F, N, I, M, Index, FinalFilename, targets, committed, Ns>>
  /\ UNCHANGED <<optVars, bufVars, commentVars>>

\* PrintModule that prints the summary index into the body buffer instead
\* of the output stream.
PrintModuleIndexToBuffer ==
  /\ pc = "print"
  /\ IndexText' \in (IF ~DontPrint /\ Index THEN IndexTexts ELSE {IndexText})
  /\ IF ~DontPrint /\ M
     THEN /\ \E b \in Bodies : OutString' = IndexText' \o b
          /\ CSSOutString' \in CssTexts
          /\ Printed' = TRUE
     ELSE /\ OutString' = IndexText'
          /\ UNCHANGED <<CSSOutString, Printed>>
  /\ pc' = "inline"
  /\ UNCHANGED <<F, N, I, M, Index, FinalFilename, Out, targets, status, failPos>>
  /\ UNCHANGED <<optVars, histVars, commentVars>>

\* Lines 264-272: HTMLWriter::print into the two buffers when a module was
\* materialized, then the summary index straight to the output stream.
PrintModule ==
  /\ pc = "print"
  /\ IF ~DontPrint /\ M
     THEN /\ OutString' \in Bodies
          /\ CSSOutString' \in CssTexts
          /\ Printed' = TRUE
     ELSE UNCHANGED <<OutString, CSSOutString, Printed>>
  /\ IF ~DontPrint /\ Index
     THEN /\ IndexText' \in IndexTexts
          /\ Out' = [Out EXCEPT !.os = @ \o IndexText']
     ELSE UNCHANGED <<IndexText, Out>>
  /\ pc' = "inline"
  /\ UNCHANGED <<F, N, I, M, Index, FinalFilename, targets, status, failPos>>
  /\ UNCHANGED <<optVars, histVars, commentVars>>

\* Line 274: inlineCSS(Out->os(), OutOS.str(), CSSOutOS.str()).
InlineCSS ==
  /\ pc = "inline"
  /\ Out' = [Out EXCEPT !.os = @ \o inlineCSS(OutString, CSSOutString)]
  /\ pc' = "keep"
  /\ UNCHANGED <<F, N, I, M, Index, FinalFilename, targets, status, failPos>>
  /\ UNCHANGED <<optVars, bufVars, histVars, commentVars>>

\* Line 277: Out->keep().
Keep ==
  /\ pc = "keep"
  /\ Out' = [Out EXCEPT !.keep = TRUE]
  /\ committed' = Append(committed, [file |-> F, module |-> I, name |-> Out.name])
  /\ pc' = "next"
  /\ UNCHANGED <<F, N, I, M, Index, FinalFilename, targets, status, failPos,
                 disk, Ns>>
  /\ UNCHANGED <<optVars, bufVars, commentVars>>

\* Lines 278-281: the end of the loop body destroys the iteration's locals
\* (a ToolOutputFile that was not kept removes its file); ++I, then the next
\* input file, then "return 0".
NextIteration ==
  /\ pc = "next"
  /\ disk' = IF Out.keep \/ Out.name = Dash THEN disk ELSE disk \ {Out.name}
  /\ Out' = NoOut
  /\ M' = FALSE /\ Index' = FALSE /\ IndexText' = <<>>
  /\ OutString' = <<>> /\ CSSOutString' = <<>> /\ Printed' = FALSE
  /\ FinalFilename' = <<>>
  /\ IF I + 1 < N
     THEN /\ I' = I + 1
          /\ pc' = "materialize"
          /\ UNCHANGED <<F, N, targets, status>>
     ELSE IF F < Len(InputFilenames)
     THEN /\ F' = F + 1 /\ I' = 0 /\ N' = 0 /\ targets' = <<>>
          /\ pc' = "load"
          /\ UNCHANGED status
     ELSE /\ pc' = "exit"
          /\ status' = 0
          /\ UNCHANGED <<F, N, I, targets>>
  /\ UNCHANGED <<failPos, committed, Ns>>
  /\ UNCHANGED <<optVars, commentVars>>

Next ==
  \/ CheckArgs
  \/ LoadFile
  \/ DecodeContainer
  \/ Materialize
  \/ LTOInfo
  \/ ResolveName
  \/ OpenOutput
  \/ PrintModule
  \/ InlineCSS
  \/ Keep
  \/ NextIteration

Spec == Init /\ [][Next]_vars

----------------------------------------------------------------------------
(* Properties of the driver (specification Spec).                           *)

\* The (file, module) pairs that precede module i of file f in processing
\* order, given the module counts ns of the files before f.
RECURSIVE PairsBefore(_, _, _)
PairsBefore(ns, f, i) ==
  IF i > 0 THEN Append(PairsBefore(ns, f, i - 1), <<f, i - 1>>)
  ELSE IF f > 1 THEN PairsBefore(ns, f - 1, ns[f - 1])
  ELSE <<>>

CommittedPairs == [k \in 1..Len(committed) |-> <<committed[k].file, committed[k].module>>]

CommittedNames == {committed[k].name : k \in 1..Len(committed)}

Conflict == Len(InputFilenames) > 1 /\ OutputFilename # <<>>

\* C3: with more than one positional input and a non-empty -o, the run ends
\* with exit status 1 before any input is loaded and before any output target
\* is resolved, created, written or kept.
C3_ConflictExitsBeforeWork ==
  Conflict =>
    /\ pc \in {"args", "exit"}
    /\ pc = "exit" => status = 1
    /\ F = 0 /\ Ns = <<>> /\ ~M /\ ~Index
    /\ targets = <<>> /\ ~Out.open /\ Out.os = <<>>
    /\ disk = {} /\ committed = <<>>

C3_Witness == Conflict /\ pc = "exit" /\ status = 1

\* C4 (as claimed): with --disable-output no file is created or changed -
\* the only target ever opened is "-" and nothing is written to it - while
\* modules are still materialized.
C4_DisableOutputTouchesNoFile ==
  DontPrint =>
    /\ disk = {}
    /\ Out.open => (Out.name = Dash /\ Out.os = <<>>)
    /\ (Out.open /\ ~PrintThinLTOIndexOnly) => M

\* C6: files are handled in command-line order and modules in index order;
\* an output is kept only after its module was loaded, printed and inlined;
\* when the run ends fatally while handling module I of file F the kept
\* outputs are exactly those of the pairs before (F, I), and exactly their
\* files are on disk.
C6_CommitOrder ==
  /\ pc \notin {"args", "next", "exit"} => CommittedPairs = PairsBefore(Ns, F, I)
  /\ pc = "next" =>
       /\ CommittedPairs = PairsBefore(Ns, F, I + 1)
       /\ Out.open /\ Out.keep
       /\ M <=> ~PrintThinLTOIndexOnly
       /\ Printed <=> (M /\ ~DontPrint)
       /\ committed[Len(committed)].name = FinalFilename
  /\ (pc = "exit" /\ status = 1) =>
       /\ CommittedPairs = PairsBefore(Ns, failPos[1], failPos[2])
       /\ disk = CommittedNames \ {Dash}
  /\ (pc = "exit" /\ status = 0) =>
       /\ Len(Ns) = Len(InputFilenames)
       /\ CommittedPairs = PairsBefore(Ns, Len(Ns), Ns[Len(Ns)])

\* A fatal end in the second module of the second file, after three commits.
C6_Witness ==
  /\ pc = "exit" /\ status = 1
  /\ failPos = <<2, 1>>
  /\ Len(committed) = Ns[1] + 1
  /\ Ns[1] > 1

\* C7 (as claimed): with --print-thinlto-index-only a module that carries a
\* summary index is never materialized, the HTML printer never runs, and the
\* output is the rendered index and nothing else.
C7_IndexOnlyPrintsIndex ==
  PrintThinLTOIndexOnly =>
    /\ ~M /\ ~Printed /\ OutString = <<>>
    /\ (Index /\ pc \in {"keep", "next"}) => Out.os \in IndexTexts

\* C7 (amended): the same, with --disable-output off.
C7_IndexOnlyPrintsIndexWhenEnabled ==
  PrintThinLTOIndexOnly =>
    /\ ~M /\ ~Printed /\ OutString = <<>>
    /\ (Index /\ ~DontPrint /\ pc \in {"keep", "next"}) => Out.os \in IndexTexts

C7_Witness ==
  /\ PrintThinLTOIndexOnly /\ ~DontPrint /\ Index
  /\ pc = "next" /\ Out.keep /\ Out.os # <<>>

\* C10: when a module is printed and carries a summary index, the index text
\* goes straight to the output stream before the body: the output is the raw
\* index text followed by the CSS-substituted body, and the two buffers hold
\* only what the HTML printer wrote.
C10_IndexBeforeBody ==
  (~DontPrint /\ M /\ Index) =>
    /\ pc = "inline" => (Out.os = IndexText /\ IndexText \in IndexTexts)
    /\ pc \in {"keep", "next"} =>
         /\ IndexText \in IndexTexts
         /\ SubSeq(Out.os, 1, Len(IndexText)) = IndexText
         /\ SubSeq(Out.os, Len(IndexText) + 1, Len(Out.os))
              = inlineCSS(OutString, CSSOutString)
    /\ pc \in {"inline", "keep", "next"} =>
         (OutString \in Bodies /\ CSSOutString \in CssTexts)

\* An index text that itself holds a match of the placeholder pattern, kept
\* in front of a body whose placeholder was substituted.
C10_Witness ==
  /\ ~DontPrint /\ M /\ Index /\ pc = "next" /\ Out.keep
  /\ NextMatch(IndexText, 1) > 0
  /\ NextMatch(OutString, 1) > 0
  /\ NextMatch(Out.os, 1) > 0

----------------------------------------------------------------------------
(* Output-name resolution over all short names: SpecNames.                 *)
(* One input whose name is any text over NameChars; the module loop of     *)
(* main runs with every library call succeeding.                           *)

NameChars == {"-", ".", "b", "c"}

AllNames == SeqsUpTo(NameChars, MaxNameLen) \ {<<>>}

InitNames ==
  /\ InputFilenames \in {<<n>> : n \in AllNames}
  /\ OutputFilename \in OutputNames
  /\ DontPrint \in BOOLEAN
  /\ PrintThinLTOIndexOnly = FALSE
  /\ pc = "resolve"
  /\ F = 1 /\ N \in 1..MaxModules /\ I = 0
  /\ M = FALSE /\ Index = FALSE /\ IndexText = <<>>
  /\ FinalFilename = <<>>
  /\ Out = NoOut
  /\ OutString = <<>> /\ CSSOutString = <<>> /\ Printed = FALSE
  /\ disk = {} /\ committed = <<>> /\ Ns = <<N>> /\ targets = <<>>
  /\ failPos = <<0, 0>>
  /\ status = -1
  /\ V = NoValue /\ OS = <<>> /\ Padded = FALSE

\* Lines 209 and 248-278 with every call succeeding: on to the next module.
AdvanceModule ==
  /\ pc = "open"
  /\ IF I + 1 < N
     THEN /\ I' = I + 1
          /\ pc' = "resolve"
          /\ UNCHANGED status
     ELSE /\ pc' = "exit"
          /\ status' = 0
          /\ UNCHANGED I
  /\ UNCHANGED <<F, N, M, Index, FinalFilename, Out, targets, failPos>>
  /\ UNCHANGED <<optVars, bufVars, histVars, commentVars>>

NextNames ==
  \/ ResolveName
  \/ AdvanceModule

SpecNames == InitNames /\ [][NextNames]_vars

\* Whether name holds the decimal text of i as a dot-separated component:
\* a "." followed by the digits of i, followed by "." or the end of the name.
HasIndexComponent(name, i) ==
  LET d == to_string(i)
  IN \E p \in 1..Len(name) :
       /\ name[p] = "."
       /\ p + Len(d) <= Len(name)
       /\ SubSeq(name, p + 1, p + Len(d)) = d
       /\ (p + Len(d) = Len(name) \/ name[p + Len(d) + 1] = ".")

\* C1 (as claimed): for a container with N > 1 modules the N resolved targets
\* are pairwise distinct and the target of module I holds the index I as a
\* dot-separated component, whatever -o, the input name and --disable-output.
C1_TargetsDistinctAndIndexed ==
  (N > 1 /\ Len(targets) = N) =>
    /\ \A j, k \in 1..N : j # k => targets[j] # targets[k]
    /\ \A k \in 1..N : HasIndexComponent(targets[k], k - 1)

\* The name the claim C2 expects for input ifn: a trailing ".bc" removed if
\* present, ".html" appended.
IsDerivedName(ifn, name) ==
  \/ \E stem \in SeqsUpTo(NameChars, MaxNameLen) :
       ifn = stem \o <<".", "b", "c">> /\ name = stem \o <<".", "h", "t", "m", "l">>
  \/ /\ ~(\E stem \in SeqsUpTo(NameChars, MaxNameLen) : ifn = stem \o <<".", "b", "c">>)
     /\ name = ifn \o <<".", "h", "t", "m", "l">>

\* C2 (as claimed): with exactly one module and no -o, the resolved name is
\* the input name without a trailing ".bc", followed by ".html".
C2_DerivedName ==
  (N = 1 /\ OutputFilename = <<>> /\ Len(targets) = 1) =>
    IsDerivedName(InputFilenames[1], targets[1])

\* C2 (amended): the same for an input other than the stdin sentinel "-" and
\* with --disable-output off.
C2_DerivedNameOfFile ==
  (N = 1 /\ OutputFilename = <<>> /\ Len(targets) = 1
     /\ InputFilenames[1] # Dash /\ ~DontPrint) =>
    IsDerivedName(InputFilenames[1], targets[1])

C2_Witness ==
  /\ N = 1 /\ OutputFilename = <<>> /\ ~DontPrint
  /\ InputFilenames[1] = <<"-", ".", "b", "c">>
  /\ targets = <<<<"-", ".", "h", "t", "m", "l">>>>

----------------------------------------------------------------------------
(* inlineCSS over all short texts: SpecCSS.                                *)

BodyChars == {LinkTok, ">", "x", "\n"}

CssChars == {"c", "$", "&"}

InitCSS ==
  /\ OutString \in SeqsUpTo(BodyChars, MaxBodyLen)
  /\ CSSOutString \in SeqsUpTo(CssChars, MaxCssLen)
  /\ Out = [name |-> Dash, os |-> <<>>, keep |-> FALSE, open |-> TRUE]
  /\ pc = "inline"
  /\ InputFilenames = <<Dash>> /\ OutputFilename = <<>>
  /\ DontPrint = FALSE /\ PrintThinLTOIndexOnly = FALSE
  /\ F = 1 /\ N = 1 /\ I = 0
  /\ M = TRUE /\ Index = FALSE /\ IndexText = <<>>
  /\ FinalFilename = Dash
  /\ Printed = TRUE
  /\ disk = {} /\ committed = <<>> /\ Ns = <<1>> /\ targets = <<Dash>>
  /\ failPos = <<0, 0>>
  /\ status = -1
  /\ V = NoValue /\ OS = <<>> /\ Padded = FALSE

NextCSS == InlineCSS

SpecCSS == InitCSS /\ [][NextCSS]_vars

\* Number of matches of "<link.*>" in s at or after from, as a
\* std::sregex_iterator counts them.
RECURSIVE CountMatchesFrom(_, _)
CountMatchesFrom(s, from) ==
  LET p == NextMatch(s, from)
  IN IF p = 0 THEN 0 ELSE 1 + CountMatchesFrom(s, MatchEnd(s, p) + 1)

CountMatches(s) == CountMatchesFrom(s, 1)

BeforeFirstMatch(s) == SubSeq(s, 1, NextMatch(s, 1) - 1)

AfterFirstMatch(s) == SubSeq(s, MatchEnd(s, NextMatch(s, 1)) + 1, Len(s))

\* C5 (as claimed): for a body with exactly one placeholder and a non-empty
\* CSS text, the output holds exactly one <style> block whose content is the
\* CSS text verbatim, no match of the placeholder pattern, and the body text
\* outside the placeholder unchanged.
C5_OnePlaceholderInlined ==
  (pc = "keep" /\ CountMatches(OutString) = 1 /\ CSSOutString # <<>>) =>
    /\ Out.os = BeforeFirstMatch(OutString)
                \o <<"<style", ">", " ", "\n">> \o CSSOutString
                \o <<"</style", ">", " ", "\n">>
                \o AfterFirstMatch(OutString)
    /\ Count(Out.os, "<style") = 1
    /\ Count(Out.os, "</style") = 1
    /\ CountMatches(Out.os) = 0

\* C9 (as claimed): for a body with two or more matches of the placeholder
\* pattern, the output holds exactly one inserted <style> block and every
\* match after the first is left unchanged.
C9_OnlyFirstMatchReplaced ==
  (pc = "keep" /\ CountMatches(OutString) >= 2) =>
    /\ Count(Out.os, "<style") = 1
    /\ endswith(Out.os, AfterFirstMatch(OutString))
    /\ CountMatches(AfterFirstMatch(OutString)) = CountMatches(OutString) - 1

----------------------------------------------------------------------------
(* CommentWriter::printInfoComment: SpecComment.                           *)
(* V is [isVoid, isInst, debugLoc, dbg]: debugLoc is the length of the     *)
(* inlined-at chain of the instruction's debug location, -1 without one;   *)
(* dbg is "declare", "value" or "none".  OS is the sequence of what the    *)
(* call emits; "PAD50" stands for OS.PadToColumn(50).                      *)

Values ==
  {[isVoid |-> v, isInst |-> FALSE, debugLoc |-> -1, dbg |-> "none"] : v \in BOOLEAN}
  \cup
  [isVoid : BOOLEAN, isInst : {TRUE}, debugLoc : -1..MaxInlineDepth,
   dbg : {"declare", "value", "none"}]

UsesFragment == " [#uses type]"

DebugLineOpen == " [debug line = "

DebugVarFragment == " [debug variable]"

\* printDebugLoc: "line:col", then "@" and the inlined-at location.
RECURSIVE printDebugLoc(_)
printDebugLoc(depth) ==
  IF depth = 0 THEN <<"line:col">>
  ELSE <<"line:col", "@">> \o printDebugLoc(depth - 1)

InitComment ==
  /\ V \in Values
  /\ OS = <<>>
  /\ Padded = FALSE
  /\ pc = "type"
  /\ InputFilenames = <<Dash>> /\ OutputFilename = <<>>
  /\ DontPrint = FALSE /\ PrintThinLTOIndexOnly = FALSE
  /\ F = 1 /\ N = 1 /\ I = 0
  /\ M = TRUE /\ Index = FALSE /\ IndexText = <<>>
  /\ FinalFilename = Dash
  /\ Out = [name |-> Dash, os |-> <<>>, keep |-> FALSE, open |-> TRUE]
  /\ OutString = <<>> /\ CSSOutString = <<>> /\ Printed = FALSE
  /\ disk = {} /\ committed = <<>> /\ Ns = <<1>> /\ targets = <<Dash>>
  /\ failPos = <<0, 0>>
  /\ status = -1

driverVars == <<F, N, I, M, Index, FinalFilename, Out, targets, failPos, status>>

\* Lines 103-109: the use count and type of a non-void value.
TypeComment ==
  /\ pc = "type"
  /\ IF ~V.isVoid
     THEN /\ OS' = OS \o <<"PAD50", ";", UsesFragment>>
          /\ Padded' = TRUE
     ELSE UNCHANGED <<OS, Padded>>
  /\ pc' = "line"
  /\ UNCHANGED <<V, driverVars, optVars, bufVars, histVars>>

\* DebugLineComment that pads and opens the comment but leaves Padded unset.
DebugLineCommentForgetsPadded ==
  /\ pc = "line"
  /\ IF V.isInst /\ V.debugLoc >= 0
     THEN OS' = OS \o (IF ~Padded THEN <<"PAD50", ";">> ELSE <<>>)
                   \o <<DebugLineOpen>> \o printDebugLoc(V.debugLoc) \o <<"]">>
     ELSE UNCHANGED OS
  /\ pc' = "var"
  /\ UNCHANGED <<V, Padded, driverVars, optVars, bufVars, histVars>>

\* Lines 110-120: the debug location of an instruction.
DebugLineComment ==
  /\ pc = "line"
  /\ IF V.isInst /\ V.debugLoc >= 0
     THEN /\ OS' = OS \o (IF ~Padded THEN <<"PAD50", ";">> ELSE <<>>)
                      \o <<DebugLineOpen>> \o printDebugLoc(V.debugLoc) \o <<"]">>
          /\ Padded' = TRUE
     ELSE UNCHANGED <<OS, Padded>>
  /\ pc' = "var"
  /\ UNCHANGED <<V, driverVars, optVars, bufVars, histVars>>

\* Lines 121-135: the variable of a debug-declare or debug-value intrinsic
\* (neither branch sets Padded).
DebugVarComment ==
  /\ pc = "var"
  /\ IF V.isInst /\ V.dbg \in {"declare", "value"}
     THEN OS' = OS \o (IF ~Padded THEN <<"PAD50", ";">> ELSE <<>>)
                   \o <<DebugVarFragment>>
     ELSE UNCHANGED OS
  /\ pc' = "done"
  /\ UNCHANGED <<V, Padded, driverVars, optVars, bufVars, histVars>>

NextComment ==
  \/ TypeComment
  \/ DebugLineComment
  \/ DebugVarComment

SpecComment == InitComment /\ [][NextComment]_vars

\* The comment fragments the call owes the value V.
OwesUses == ~V.isVoid

OwesDebugLine == V.isInst /\ V.debugLoc >= 0

OwesDebugVar == V.isInst /\ V.dbg # "none"

\* C8: padding to column 50 happens at most once; when at least one fragment
\* is emitted it happens exactly once and first, exactly one ";" opens the
\* comment, and a non-void value's comment holds the use-count/type fragment.
C8_PaddedOnce ==
  /\ Count(OS, "PAD50") <= 1
  /\ Count(OS, ";") <= 1
  /\ OS # <<>> => (OS[1] = "PAD50" /\ OS[2] = ";")
  /\ pc = "done" =>
       /\ (OwesUses \/ OwesDebugLine \/ OwesDebugVar) <=> OS # <<>>
       /\ Count(OS, UsesFragment) = (IF OwesUses THEN 1 ELSE 0)
       /\ Count(OS, DebugLineOpen) = (IF OwesDebugLine THEN 1 ELSE 0)
       /\ Count(OS, DebugVarFragment) = (IF OwesDebugVar THEN 1 ELSE 0)
       /\ OwesUses => OS[3] = UsesFragment

\* A void debug-declare with a debug location: two fragments, one padding.
C8_Witness ==
  /\ pc = "done"
  /\ V.isVoid /\ V.isInst /\ V.debugLoc > 0 /\ V.dbg = "declare"
  /\ Count(OS, "PAD50") = 1
  /\ Count(OS, DebugLineOpen) = 1 /\ Count(OS, DebugVarFragment) = 1

====
